---- MODULE Spec2Model ----
(***************************************************************************)
(* Model of the Job orchestrator of src/bus/core/job.py: a DAG of named    *)
(* tasks, a status-gated set of operations, a snapshot of the graph taken  *)
(* when a run begins, the run log, and the completion handler that         *)
(* propagates readiness and decides when the run has ended.                *)
(*                                                                         *)
(* The DAG base class, JobState and Task are imported by job.py but are    *)
(* not part of the source tree; they are modelled from the specification.  *)
(***************************************************************************)
EXTENDS Naturals, Sequences, FiniteSets, TLC

\* ------------------------------------------------------------------ bounds
Names == {"A", "B", "C", "D"}      \* task names a caller may use
MaxEdges == 2                      \* add_dependency is explored up to this many edges
MaxInflight == 2                   \* started, unreported attempts explored per task
MaxHandlers == 2                   \* completion callbacks explored at the same time
MaxStarts == 2                     \* the per-attempt start counter saturates here
MaxThreadTasks == 3                \* tasks of the jobs explored with interleaved callbacks
MaxNextRun == 2                    \* fire times explored for the cron schedule
Commands == {"cmd", "other"}       \* commands a caller may give a task
JobNames == {"job", "renamed"}     \* names a caller may give the job
Notes == {"None", "note"}          \* notes a caller may set (the first is the constructor's)

\* ------------------------------------------------------------------ state
VARIABLES
    graph,          \* DAG.graph: node -> set of direct downstream nodes
    tasks,          \* Job.tasks: name -> Task
    status,         \* Job.state.status
    run_log,        \* Job.run_log: None, {} or a dict with a 'tasks' dict
    snapshot,       \* Job.snapshot: None or a copy of the graph
    cron_schedule,  \* Job.cron_schedule
    next_run,       \* Job.next_run (0 is None)
    name,           \* Job.name
    notes,          \* Job.notes
    inflight,       \* per task name: attempts started that have not reported yet
    starts,         \* per task name: Task.start() calls since the last start()/retry()
    events,         \* events emitted since the last start()/retry(), in order
    handlers,       \* completion callbacks that are part-way through _complete_task
    backend         \* the backend's lock and what the latest completion asked of it

vars == <<graph, tasks, status, run_log, snapshot, cron_schedule, next_run,
          name, notes, inflight, starts, events, handlers, backend>>

\* ------------------------------------------------------------------ values
EmptyMap == [n \in {} |-> {}]

NoSnapshot == [present |-> FALSE, graph |-> EmptyMap]
SnapshotOf(g) == [present |-> TRUE, graph |-> g]

NoneLog == [kind |-> "None", tasks |-> EmptyMap]
ClearedLog == [kind |-> "empty", tasks |-> EmptyMap]
LogOf(t) == [kind |-> "dict", tasks |-> t]

SeedEntry == [has_success |-> FALSE, success |-> FALSE]
ResultEntry(ok) == [has_success |-> TRUE, success |-> ok]

NewTask(command, task_name) == [name |-> task_name, command |-> command]
TaskOf(task_name) == NewTask("cmd", task_name)

\* the calls of a completion that are made with the backend's lock held
Sections == {"commit_log", "task_failed", "job_failed", "job_complete"}

\* held: the lock is taken; misuse: it was taken while held or released while
\* free; committed: the latest completion called commit_log; caught: the calls
\* of the latest completion whose error was caught
BackendIdle == [held |-> FALSE, misuse |-> FALSE, committed |-> FALSE, caught |-> {}]

Put(f, k, v) == [x \in (DOMAIN f) \cup {k} |-> IF x = k THEN v ELSE f[x]]
Drop(f, k) == [x \in (DOMAIN f) \ {k} |-> f[x]]

Min(a, b) == IF a < b THEN a ELSE b

\* ------------------------------------------------------------------ JobState
allow_change_graph(s) == s = "waiting"
allow_change_schedule(s) == s = "waiting"
allow_start(s) == s = "waiting"
allow_edit_job(s) == s \in {"waiting", "failed"}
allow_edit_task(s) == s \in {"waiting", "failed"}

\* ------------------------------------------------------------------ DAG
Edges(g) == {e \in (DOMAIN g) \X (DOMAIN g) : e[2] \in g[e[1]]}

add_node(g, n) == IF n \in DOMAIN g THEN g ELSE Put(g, n, {})

delete_node(g, n) == [x \in (DOMAIN g) \ {n} |-> g[x] \ {n}]

add_edge(g, a, b) == [g EXCEPT ![a] = @ \cup {b}]

delete_edge(g, a, b) == [g EXCEPT ![a] = @ \ {b}]

Relabel(x, old, new) == IF x = old THEN new ELSE x

rename_edges(g, old, new) ==
    [x \in {Relabel(y, old, new) : y \in DOMAIN g} |->
        {Relabel(z, old, new) : z \in g[IF x = new THEN old ELSE x]}]

ind_nodes(g) == {n \in DOMAIN g : \A m \in DOMAIN g : n \notin g[m]}

downstream(g, n) == g[n]

RECURSIVE Reach(_, _, _)
Reach(g, S, k) ==
    IF k = 0 THEN S
    ELSE Reach(g, S \cup UNION {g[x] : x \in S \cap DOMAIN g}, k - 1)

validate(g) == \A n \in DOMAIN g : n \notin Reach(g, g[n], Cardinality(DOMAIN g))

\* Job._dependencies: the keys of the snapshot whose value contains the task
_dependencies(task_name, snap) == {k \in DOMAIN snap : task_name \in snap[k]}

\* ------------------------------------------------------------------ Job.__init__
\* a callback that is not running
Idle == [pc |-> "idle", task |-> "", ok |-> FALSE, todo |-> {}]

\* The job as its constructor leaves it.
InitFresh ==
    /\ graph = EmptyMap
    /\ tasks = EmptyMap
    /\ status = "waiting"
    /\ run_log = NoneLog
    /\ snapshot = NoSnapshot
    /\ cron_schedule = "None"
    /\ next_run = 0
    /\ name = "job"
    /\ notes = "None"
    /\ inflight = [n \in Names |-> 0]
    /\ starts = [n \in Names |-> 0]
    /\ events = <<>>
    /\ handlers = [i \in 1..MaxHandlers |-> Idle]
    /\ backend = BackendIdle

\* Jobs built by add_task and add_dependency and not yet started: the tasks are a
\* prefix of NameOrder and every dependency points forward in it, which gives
\* every DAG on up to four tasks up to the choice of names.
NameOrder == <<"A", "B", "C", "D">>
Prefix(k) == {NameOrder[i] : i \in 1..k}
Later(n) == {NameOrder[j] : j \in {i \in 1..Len(NameOrder) : \E k \in 1..(i - 1) : NameOrder[k] = n}}
BuiltGraphs ==
    UNION {{g \in [Prefix(k) -> SUBSET Prefix(k)] : \A n \in Prefix(k) : g[n] \subseteq Later(n)}
           : k \in 0..Len(NameOrder)}

Init ==
    /\ graph \in BuiltGraphs
    /\ tasks = [n \in DOMAIN graph |-> TaskOf(n)]
    /\ status = "waiting"
    /\ run_log = NoneLog
    /\ snapshot = NoSnapshot
    /\ cron_schedule = "None"
    /\ next_run = 0
    /\ name = "job"
    /\ notes = "None"
    /\ inflight = [n \in Names |-> 0]
    /\ starts = [n \in Names |-> 0]
    /\ events = <<>>
    /\ handlers = [i \in 1..MaxHandlers |-> Idle]
    /\ backend = BackendIdle

\* the fields no run operation touches
JobRunVars == <<status, run_log, snapshot, inflight, starts, events, handlers, backend>>

\* the fields only edit() and update_job_notes() touch
JobMeta == <<name, notes>>

\* ------------------------------------------------------------------ structure
\* What a call reports: "" when it returns, else the error it raises. A call that
\* raises before it has written anything leaves every variable as it was.
\* as add_task_error, without the test of the status
add_task_error_unguarded(task_name) == ""

add_task_error(task_name) ==
    IF ~allow_change_graph(status) THEN "job's graph is immutable in its current state"
    ELSE ""

add_task(command, task_name) ==
    IF add_task_error(task_name) # ""
    THEN UNCHANGED vars
    ELSE /\ tasks' = Put(tasks, task_name, NewTask(command, task_name))
         /\ graph' = add_node(graph, task_name)
         /\ UNCHANGED <<cron_schedule, next_run, JobMeta, JobRunVars>>

add_dependency_error(from, to) ==
    IF ~allow_change_graph(status) THEN "job's graph is immutable in its current state"
    ELSE IF {from, to} \ DOMAIN graph # {} THEN "structural error"
    ELSE ""

add_dependency(from, to) ==
    IF add_dependency_error(from, to) # ""
    THEN UNCHANGED vars
    ELSE /\ Cardinality(Edges(graph) \cup {<<from, to>>}) <= MaxEdges
         /\ graph' = add_edge(graph, from, to)
         /\ UNCHANGED <<tasks, cron_schedule, next_run, JobMeta, JobRunVars>>

delete_task_error(task_name) ==
    IF ~allow_change_graph(status) THEN "job's graph is immutable in its current state"
    ELSE IF task_name \notin DOMAIN tasks THEN "task does not exist"
    ELSE ""

delete_task(task_name) ==
    IF delete_task_error(task_name) # ""
    THEN UNCHANGED vars
    ELSE /\ tasks' = Drop(tasks, task_name)
         /\ graph' = delete_node(graph, task_name)
         /\ UNCHANGED <<cron_schedule, next_run, JobMeta, JobRunVars>>

delete_dependency_error(from, to) ==
    IF ~allow_change_graph(status) THEN "job's graph is immutable in its current state"
    ELSE IF <<from, to>> \notin Edges(graph) THEN "structural error"
    ELSE ""

delete_dependency(from, to) ==
    IF delete_dependency_error(from, to) # ""
    THEN UNCHANGED vars
    ELSE /\ graph' = delete_edge(graph, from, to)
         /\ UNCHANGED <<tasks, cron_schedule, next_run, JobMeta, JobRunVars>>

schedule_error ==
    IF ~allow_change_schedule(status) THEN "job's schedule cannot be changed"
    ELSE ""

schedule(cron, base) ==
    IF schedule_error # ""
    THEN UNCHANGED vars
    ELSE /\ cron_schedule' = cron
         /\ next_run' = IF cron = "None" THEN 0 ELSE base + 1
         /\ UNCHANGED <<graph, tasks, JobMeta, JobRunVars>>

\* available: what the parent answers to _name_is_available(new_name)
edit_error(new_name, available) ==
    IF ~allow_edit_job(status) THEN "job cannot be edited in its current state"
    ELSE IF ~available THEN "new job name is not available"
    ELSE ""

edit(new_name, available) ==
    IF edit_error(new_name, available) # ""
    THEN UNCHANGED vars
    ELSE /\ name' = new_name
         /\ UNCHANGED <<graph, tasks, cron_schedule, next_run, notes, JobRunVars>>

update_job_notes_error ==
    IF ~allow_edit_job(status) THEN "job cannot be edited in its current state"
    ELSE ""

update_job_notes(new_notes) ==
    IF update_job_notes_error # ""
    THEN UNCHANGED vars
    ELSE /\ notes' = new_notes
         /\ UNCHANGED <<graph, tasks, cron_schedule, next_run, name, JobRunVars>>

edit_task_error(task_name, new_name) ==
    IF ~allow_edit_task(status) THEN "tasks cannot be edited in this job's current state"
    ELSE IF task_name \notin DOMAIN tasks THEN "task not found"
    ELSE IF new_name \in DOMAIN tasks THEN "task name is unavailable"
    ELSE ""

\* as RenameTask, with the task left under its old key as well
RenameTask_kept(reg, task_name, new_name) ==
    Put(reg, new_name, [reg[task_name] EXCEPT !.name = new_name])

\* edit_task, lines 256-273: the task takes the new name and moves to the new key
RenameTask(reg, task_name, new_name) ==
    Put(Drop(reg, task_name), new_name, [reg[task_name] EXCEPT !.name = new_name])

edit_task(task_name, new_name) ==
    IF edit_task_error(task_name, new_name) # ""
    THEN UNCHANGED vars
    ELSE /\ graph' = rename_edges(graph, task_name, new_name)
         /\ tasks' = RenameTask(tasks, task_name, new_name)
         \* a running attempt of the task reports under the task's new name
         /\ inflight' = [inflight EXCEPT ![new_name] = inflight[task_name],
                                         ![task_name] = 0]
         /\ UNCHANGED <<cron_schedule, next_run, JobMeta, status, run_log, snapshot,
                        starts, events, handlers, backend>>

\* ------------------------------------------------------------------ run state
\* The fields of the Job that a run reads and writes, as one value, so that the
\* steps of a handler compose. exc: the step raised; over: a Task.start() went
\* beyond MaxInflight (such steps are not explored); faults: the calls to the
\* backend and to the event handler that raise during this call.
Self ==
    [status |-> status, run_log |-> run_log, snapshot |-> snapshot,
     inflight |-> inflight, starts |-> starts, events |-> events,
     backend |-> backend, faults |-> {}, exc |-> FALSE, over |-> FALSE]

Raise(J) == [J EXCEPT !.exc = TRUE]

Emit(J, event, task) == [J EXCEPT !.events = Append(@, [event |-> event, task |-> task])]

\* Task.start(): one more attempt of the task is running
TaskStart(J, n) ==
    [J EXCEPT !.inflight[n] = Min(@ + 1, MaxInflight),
              !.over = @ \/ J.inflight[n] >= MaxInflight,
              !.starts[n] = Min(@ + 1, MaxStarts)]

_put_task_in_run_log(J, n) ==
    IF n \notin DOMAIN tasks \/ J.run_log.kind # "dict"
    THEN Raise(J)
    ELSE [J EXCEPT !.run_log.tasks = Put(@, n, SeedEntry)]

\* as RecordedSuccess, with any recorded result taken for a success
RecordedSuccess_any(log_tasks, dep) ==
    /\ dep \in DOMAIN log_tasks
    /\ log_tasks[dep].has_success

\* run_log['tasks'].get(dep, {}).get('success', False) == True
RecordedSuccess(log_tasks, dep) ==
    /\ dep \in DOMAIN log_tasks
    /\ log_tasks[dep].has_success
    /\ log_tasks[dep].success

\* as _start_if_ready, with one successful dependency taken to be enough
_start_if_ready_any(J, n) ==
    IF n \notin DOMAIN tasks \/ ~J.snapshot.present
    THEN Raise(J)
    ELSE LET dependencies == _dependencies(n, J.snapshot.graph) IN
         IF dependencies # {} /\ J.run_log.kind # "dict"
         THEN Raise(J)
         ELSE IF \E d \in dependencies : RecordedSuccess(J.run_log.tasks, d)
         THEN LET J1 == _put_task_in_run_log(J, n) IN
              IF J1.exc THEN J1 ELSE TaskStart(J1, n)
         ELSE J

_start_if_ready(J, n) ==
    IF n \notin DOMAIN tasks \/ ~J.snapshot.present
    THEN Raise(J)
    ELSE LET dependencies == _dependencies(n, J.snapshot.graph) IN
         IF dependencies # {} /\ J.run_log.kind # "dict"
         THEN Raise(J)
         ELSE IF \A d \in dependencies : RecordedSuccess(J.run_log.tasks, d)
         THEN LET J1 == _put_task_in_run_log(J, n) IN
              IF J1.exc THEN J1 ELSE TaskStart(J1, n)
         ELSE J

\* as WriteEntry, with the success flag of the payload dropped
WriteEntry_lost(J, t, ok) ==
    IF J.run_log.kind # "dict"
    THEN Raise(J)
    ELSE [J EXCEPT !.run_log.tasks = Put(@, t, SeedEntry)]

\* _complete_task, line 281: the entry is replaced by the payload
WriteEntry(J, t, ok) ==
    IF J.run_log.kind # "dict"
    THEN Raise(J)
    ELSE [J EXCEPT !.run_log.tasks = Put(@, t, ResultEntry(ok))]

\* _complete_task, line 283: the list the loop runs over. Without a snapshot the
\* graph class either signals an error or answers from the live graph.
DownstreamList(J, t, live) ==
    LET g == IF J.snapshot.present THEN J.snapshot.graph ELSE graph IN
    IF (~J.snapshot.present /\ ~live) \/ t \notin DOMAIN g
    THEN [exc |-> TRUE, nodes |-> {}]
    ELSE [exc |-> FALSE, nodes |-> downstream(g, t)]

Perms(S) ==
    {f \in [1..Cardinality(S) -> S] : \A i, j \in 1..Cardinality(S) : f[i] = f[j] => i = j}

\* as Propagate, with no downstream task looked at
Propagate_none(J, order) == J

RECURSIVE Propagate(_, _)
Propagate(J, order) ==
    IF order = <<>> \/ J.exc THEN J
    ELSE Propagate(_start_if_ready(J, Head(order)), Tail(order))

\* backend.acquire_lock() and backend.release_lock()
acquire_lock(J) ==
    [J EXCEPT !.backend.held = TRUE, !.backend.misuse = @ \/ J.backend.held]

release_lock(J) ==
    [J EXCEPT !.backend.held = FALSE, !.backend.misuse = @ \/ ~J.backend.held]

\* except: the error of the call sec, if it raised, is logged and dropped
Except(J, sec) ==
    IF sec \in J.faults THEN [J EXCEPT !.backend.caught = @ \cup {sec}] ELSE J

\* as Finally, with the lock kept when the call has raised
Finally_unless_raised(J, sec) ==
    IF sec \in J.backend.caught THEN J ELSE release_lock(J)

\* finally: backend.release_lock()
Finally(J, sec) == release_lock(J)

\* try: acquire_lock(); the call sec  except: ...  finally: release_lock()
\* K is the job after the call sec made with the lock acquired
Locked(K, sec) == Finally(Except(K, sec), sec)

\* backend.commit_log(run_log)
_commit_run_log(J) == [J EXCEPT !.backend.committed = TRUE]

\* as EmitTaskFailed, with the event emitted whatever the result was
EmitTaskFailed_always(J, t, ok) ==
    IF t \notin DOMAIN tasks THEN Raise(J)
    ELSE Locked(Emit(acquire_lock(J), "task_failed", t), "task_failed")

\* _complete_task, lines 294-304
EmitTaskFailed(J, t, ok) ==
    IF ok THEN J
    ELSE IF t \notin DOMAIN tasks THEN Raise(J)
    ELSE Locked(Emit(acquire_lock(J), "task_failed", t), "task_failed")

\* _complete_task, lines 286-304: commit the log, emit task_failed on a failure
CommitAndEmit(J, t, ok) ==
    EmitTaskFailed(Locked(_commit_run_log(acquire_lock(J)), "commit_log"), t, ok)

\* as _is_complete, with one entry that has a result taken to be enough
_is_complete_any(J) == \E n \in DOMAIN J.run_log.tasks : J.run_log.tasks[n].has_success

_is_complete(J) == \A n \in DOMAIN J.run_log.tasks : J.run_log.tasks[n].has_success

\* _on_completion, line 326: TRUE when the handler goes on to the clean-up
PassesCheck(J) == J.status = "running" /\ J.run_log.kind = "dict" /\ _is_complete(J)

CheckRaises(J) == J.status = "running" /\ J.run_log.kind # "dict"

\* results.get('success', False) == False
RecordedFailure(entry) == ~entry.has_success \/ ~entry.success

\* _on_completion, lines 329-356
CleanUp(J) ==
    IF J.run_log.kind # "dict" THEN Raise(J)
    ELSE IF \E n \in DOMAIN J.run_log.tasks : RecordedFailure(J.run_log.tasks[n])
    THEN [Locked(Emit(acquire_lock([J EXCEPT !.status = "failed"]), "job_failed", ""),
                 "job_failed")
             EXCEPT !.snapshot = NoSnapshot]
    ELSE IF J.status = "failed"
    THEN [J EXCEPT !.snapshot = NoSnapshot]
    ELSE [Locked(Emit(acquire_lock([J EXCEPT !.status = "waiting", !.run_log = ClearedLog]),
                      "job_complete", ""),
                 "job_complete")
             EXCEPT !.snapshot = NoSnapshot]

_on_completion(J) ==
    IF CheckRaises(J) THEN Raise(J)
    ELSE IF PassesCheck(J) THEN CleanUp(J)
    ELSE J

\* the whole of _complete_task for one report
_complete_task(J, t, ok, live, order) ==
    LET J1 == WriteEntry(J, t, ok) IN
    IF J1.exc THEN J1 ELSE
    LET D == DownstreamList(J1, t, live) IN
    IF D.exc THEN Raise(J1) ELSE
    LET J2 == Propagate(J1, order) IN
    IF J2.exc THEN J2 ELSE
    LET J3 == CommitAndEmit(J2, t, ok) IN
    IF J3.exc THEN J3 ELSE _on_completion(J3)

\* a task's report: the attempt is no longer running
Reported(J, t) == [J EXCEPT !.inflight[t] = @ - 1]

\* a call of _complete_task begins; f: the calls that raise during it
Enter(J, f) ==
    [J EXCEPT !.faults = f, !.backend.committed = FALSE, !.backend.caught = {}]

Store(J) ==
    /\ ~J.over
    /\ status' = J.status
    /\ run_log' = J.run_log
    /\ snapshot' = J.snapshot
    /\ inflight' = J.inflight
    /\ starts' = J.starts
    /\ events' = J.events
    /\ backend' = J.backend

\* ------------------------------------------------------------------ execution
NewAttempt(J) ==
    [J EXCEPT !.starts = [n \in Names |-> 0], !.events = <<>>,
              !.backend.committed = FALSE, !.backend.caught = {}]

\* as initialize_snapshot, with the copy kept when validation fails
initialize_snapshot_kept(J) ==
    IF ~validate(graph)
    THEN Raise([J EXCEPT !.snapshot = SnapshotOf(graph)])
    ELSE [J EXCEPT !.snapshot = SnapshotOf(graph)]

initialize_snapshot(J) ==
    IF ~validate(graph)
    THEN Raise(J)
    ELSE [J EXCEPT !.snapshot = SnapshotOf(graph)]

RECURSIVE SeedAll(_, _)
SeedAll(J, todo) ==
    IF todo = {} \/ J.exc THEN J
    ELSE LET n == CHOOSE x \in todo : TRUE
             J1 == _put_task_in_run_log(J, n) IN
         SeedAll(IF J1.exc THEN J1 ELSE TaskStart(J1, n), todo \ {n})

\* as StartSeeds, with every task of the graph seeded
StartSeeds_all(g) == DOMAIN g

\* start(), line 161: the tasks start() seeds and starts
StartSeeds(g) == ind_nodes(g)

start_error ==
    IF ~allow_start(status) THEN "job cannot be started in its current state"
    ELSE IF ~validate(graph) THEN "invalid graph"
    ELSE ""

start(due) ==
    IF ~allow_start(status)
    THEN UNCHANGED vars
    ELSE LET S == initialize_snapshot(Self) IN
         IF S.exc
         THEN /\ Store(S)
              /\ UNCHANGED <<graph, tasks, cron_schedule, next_run, JobMeta, handlers>>
         ELSE LET J0 == [NewAttempt(S) EXCEPT !.run_log = LogOf(EmptyMap),
                                             !.status = "running"] IN
              /\ due => cron_schedule # "None" /\ next_run < MaxNextRun
              /\ next_run' = IF due THEN next_run + 1 ELSE next_run
              /\ Store(SeedAll(J0, StartSeeds(graph)))
              /\ UNCHANGED <<graph, tasks, cron_schedule, JobMeta, handlers>>

\* as FailedTaskNames, with every entry taken for a failed one
FailedTaskNames_all(log_tasks) == DOMAIN log_tasks

\* retry(), lines 173-176: log.get('success', True) == False
FailedTaskNames(log_tasks) ==
    {n \in DOMAIN log_tasks : log_tasks[n].has_success /\ ~log_tasks[n].success}

retry_error ==
    IF ~validate(graph) THEN "invalid graph"
    ELSE IF run_log.kind = "None" THEN "TypeError"
    ELSE IF run_log.kind = "empty" THEN "KeyError"
    ELSE IF FailedTaskNames(run_log.tasks) = {} THEN "no failed tasks to retry"
    ELSE IF FailedTaskNames(run_log.tasks) \ DOMAIN tasks # {} THEN "KeyError"
    ELSE ""

\* retry(): the snapshot is taken first. With no run log, or no failed entry in
\* it, the call then raises. Otherwise done is the part of the failed tasks that
\* is restarted before the lookup of a task that is no longer registered raises
\* (all of them if none is missing).
retry(done) ==
    LET S == initialize_snapshot(Self)
        failed_task_names == FailedTaskNames(run_log.tasks)
        missing == failed_task_names \ DOMAIN tasks IN
    /\ IF S.exc \/ run_log.kind # "dict" \/ failed_task_names = {}
       THEN /\ done = {}
            /\ Store(S)
       ELSE /\ done \subseteq failed_task_names \ missing
            /\ missing = {} => done = failed_task_names
            /\ Store(SeedAll([NewAttempt(S) EXCEPT !.status = "running"], done))
    /\ UNCHANGED <<graph, tasks, cron_schedule, next_run, JobMeta, handlers>>

\* A task reports and the Job handles the report from beginning to end; f: the
\* calls to the backend and to the event handler that raise meanwhile.
complete_task(t, ok, live, order, f) ==
    /\ inflight[t] > 0
    /\ LET J == _complete_task(Enter(Reported(Self, t), f), t, ok, live, order) IN Store(J)
    /\ UNCHANGED <<graph, tasks, cron_schedule, next_run, JobMeta, handlers>>

\* the report of task t with success = ok, while the calls of f raise
ReportWith(t, ok, f) ==
    \E live \in BOOLEAN :
        LET D == DownstreamList(WriteEntry(Reported(Self, t), t, ok), t, live) IN
        \E order \in Perms(D.nodes) : complete_task(t, ok, live, order, f)

\* the report of task t with success = ok, the backend and the event handler
\* working
ReportOf(t, ok) == ReportWith(t, ok, {})

Report == \E t \in Names, ok \in BOOLEAN : ReportOf(t, ok)

\* a report during which calls to the backend or to the event handler raise
FaultyReport ==
    \E t \in Names, ok \in BOOLEAN, f \in (SUBSET Sections) \ {{}} : ReportWith(t, ok, f)

\* ------------------------------------------------------------------ Next
\* Reports handled one at a time, on a job that has been built.
Next ==
    \/ \E due \in BOOLEAN : start(due)
    \/ \E done \in SUBSET Names : retry(done)
    \/ Report

Spec == Init /\ [][Next]_vars

\* Spec, with every task that has been started reporting in the end: a report
\* that can be made is not put off for ever.
SpecLive == Spec /\ \A t \in Names : WF_vars(\E ok \in BOOLEAN : ReportOf(t, ok))

\* Every operation of the job, from the constructor on, with reports handled one
\* at a time; the caller uses the names of EditNames.
EditNames == {"A", "B", "C"}

NextEdit ==
    \/ \E n \in EditNames : add_task("cmd", n)
    \/ \E a, b \in EditNames : add_dependency(a, b)
    \/ \E n \in EditNames : delete_task(n)
    \/ \E a, b \in EditNames : delete_dependency(a, b)
    \/ \E c \in {"None", "cron"}, b \in 0..(MaxNextRun - 1) : schedule(c, b)
    \/ \E a, b \in EditNames : edit_task(a, b)
    \/ \E due \in BOOLEAN : start(due)
    \/ \E done \in SUBSET EditNames : retry(done)
    \/ Report

SpecEdit == InitFresh /\ [][NextEdit]_vars

\* Every operation of the job with its guard, on tasks named from GuardNames and
\* with either command.
GuardNames == {"A", "B"}

NextGuard ==
    \/ \E c \in Commands, n \in GuardNames : add_task(c, n)
    \/ \E a, b \in GuardNames : add_dependency(a, b)
    \/ \E n \in GuardNames : delete_task(n)
    \/ \E a, b \in GuardNames : delete_dependency(a, b)
    \/ \E c \in {"None", "cron"}, b \in 0..(MaxNextRun - 1) : schedule(c, b)
    \/ \E n \in JobNames, available \in BOOLEAN : edit(n, available)
    \/ \E n \in Notes : update_job_notes(n)
    \/ \E a, b \in GuardNames : edit_task(a, b)
    \/ \E due \in BOOLEAN : start(due)
    \/ \E done \in SUBSET GuardNames : retry(done)
    \/ Report

SpecGuard == InitFresh /\ [][NextGuard]_vars

\* ------------------------------------------------------------------ threads
\* Reports handled by the tasks' own threads: _complete_task takes no lock of the
\* Job (completion_lock is never acquired), so the statements of two callbacks
\* interleave. A callback reads and writes the Job at: line 281 and the list of
\* line 283 (Begin), each _start_if_ready (Ready), the commit and task_failed
\* (Commit), the test of line 326 (Check) and lines 329-356 (Clean).
Slot(i, h) == handlers' = [handlers EXCEPT ![i] = h]

FirstIdle(i) ==
    /\ handlers[i] = Idle
    /\ \A j \in 1..(i - 1) : handlers[j] # Idle

Begin(i, t, ok, live) ==
    /\ FirstIdle(i)
    /\ inflight[t] > 0
    /\ LET J == WriteEntry(Enter(Reported(Self, t), {}), t, ok)
           D == DownstreamList(J, t, live) IN
       /\ Store(J)
       /\ IF J.exc \/ D.exc
          THEN Slot(i, Idle)
          ELSE Slot(i, [pc |-> IF D.nodes = {} THEN "commit" ELSE "ready",
                        task |-> t, ok |-> ok, todo |-> D.nodes])
    /\ UNCHANGED <<graph, tasks, cron_schedule, next_run, JobMeta>>

Ready(i, n) ==
    /\ handlers[i].pc = "ready"
    /\ n \in handlers[i].todo
    /\ LET J == _start_if_ready(Self, n)
           rest == handlers[i].todo \ {n} IN
       /\ Store(J)
       /\ IF J.exc
          THEN Slot(i, Idle)
          ELSE Slot(i, [handlers[i] EXCEPT !.todo = rest,
                                           !.pc = IF rest = {} THEN "commit" ELSE "ready"])
    /\ UNCHANGED <<graph, tasks, cron_schedule, next_run, JobMeta>>

Commit(i) ==
    /\ handlers[i].pc = "commit"
    /\ LET J == CommitAndEmit(Self, handlers[i].task, handlers[i].ok) IN
       /\ Store(J)
       /\ IF J.exc
          THEN Slot(i, Idle)
          ELSE Slot(i, [handlers[i] EXCEPT !.pc = "check"])
    /\ UNCHANGED <<graph, tasks, cron_schedule, next_run, JobMeta>>

Check(i) ==
    /\ handlers[i].pc = "check"
    /\ IF PassesCheck(Self)
       THEN Slot(i, [handlers[i] EXCEPT !.pc = "clean"])
       ELSE Slot(i, Idle)
    /\ UNCHANGED <<graph, tasks, cron_schedule, next_run, JobMeta,
                   status, run_log, snapshot, inflight, starts, events, backend>>

Clean(i) ==
    /\ handlers[i].pc = "clean"
    /\ Store(CleanUp(Self))
    /\ Slot(i, Idle)
    /\ UNCHANGED <<graph, tasks, cron_schedule, next_run, JobMeta>>

\* No callback is part-way through _complete_task.
Quiet == \A i \in 1..MaxHandlers : handlers[i] = Idle

\* The caller starts and retries the job between callbacks; the callbacks of the
\* tasks interleave with each other.
NextThreads ==
    \/ \E due \in BOOLEAN : Quiet /\ start(due)
    \/ \E done \in SUBSET Names : Quiet /\ retry(done)
    \/ \E i \in 1..MaxHandlers, t \in Names, ok \in BOOLEAN, live \in BOOLEAN :
           Begin(i, t, ok, live)
    \/ \E i \in 1..MaxHandlers, n \in Names : Ready(i, n)
    \/ \E i \in 1..MaxHandlers : Commit(i)
    \/ \E i \in 1..MaxHandlers : Check(i)
    \/ \E i \in 1..MaxHandlers : Clean(i)

\* the built jobs of up to MaxThreadTasks tasks
InitThreads ==
    /\ Init
    /\ Cardinality(DOMAIN graph) <= MaxThreadTasks

SpecThreads == InitThreads /\ [][NextThreads]_vars

\* Reports handled one at a time, with a backend and an event handler whose
\* calls may raise.
NextFaults ==
    \/ \E due \in BOOLEAN : start(due)
    \/ \E done \in SUBSET Names : retry(done)
    \/ Report
    \/ FaultyReport

SpecFaults == InitThreads /\ [][NextFaults]_vars

\* ------------------------------------------------------------------ claims
\* what the run log and the snapshot say, written out for the claims
HasEntry(log, n) == log.kind = "dict" /\ n \in DOMAIN log.tasks
SaysSuccess(log, n) == HasEntry(log, n) /\ log.tasks[n] = [has_success |-> TRUE, success |-> TRUE]
SaysFailure(log, n) == HasEntry(log, n) /\ log.tasks[n] = [has_success |-> TRUE, success |-> FALSE]
NoResult(log, n) == HasEntry(log, n) /\ ~log.tasks[n].has_success
Upstream(g, n) == {m \in DOMAIN g : n \in g[m]}
Roots(g) == {n \in DOMAIN g : Upstream(g, n) = {}}

\* C1: a task that completion handling starts has, at that moment, every direct
\* upstream task of the snapshot recorded in the run log with success = true.
C1_StartedOnlyWhenUpstreamSucceeded ==
    [][Report =>
         \A n \in Names :
            inflight'[n] > inflight[n] =>
               /\ snapshot.present
               /\ HasEntry(run_log', n)
               /\ \A d \in Upstream(snapshot.graph, n) : SaysSuccess(run_log', d)]_vars

\* a join task was started by the report of the last of its two upstream tasks
C1_Witness ==
    \E n \in Names :
       /\ snapshot.present
       /\ Cardinality(Upstream(snapshot.graph, n)) = 2
       /\ NoResult(run_log, n)
       /\ inflight[n] = 1
       /\ \A d \in Upstream(snapshot.graph, n) : SaysSuccess(run_log, d)

\* the graph a run works on: the snapshot, and the graph it was copied from once
\* the run has ended
RunGraph == IF snapshot.present THEN snapshot.graph ELSE graph

C3_SoleDependentStartsOnce ==
    /\ [][\A a, b \in Names :
             /\ snapshot.present
             /\ a \in Roots(snapshot.graph)
             /\ Upstream(snapshot.graph, b) = {a}
             /\ ReportOf(a, TRUE)
             => /\ NoResult(run_log', b)
                /\ starts[b] = 0 /\ starts'[b] = 1
                /\ inflight[b] = 0 /\ inflight'[b] = 1]_vars
    /\ [](\A a, b \in Names :
             snapshot.present /\ a \in Roots(snapshot.graph)
                /\ Upstream(snapshot.graph, b) = {a} => starts[b] <= 1)

\* the dependent task is running after its only upstream task, a root, succeeded
C3_Witness ==
    \E a, b \in Names :
       /\ snapshot.present
       /\ a \in Roots(snapshot.graph)
       /\ Upstream(snapshot.graph, b) = {a}
       /\ SaysSuccess(run_log, a)
       /\ NoResult(run_log, b)
       /\ starts[b] = 1 /\ inflight[b] = 1

JobEvents == {i \in 1..Len(events) : events[i].event \in {"job_failed", "job_complete"}}
LastEvent(evs, event) == Len(evs) > 0 /\ evs[Len(evs)].event = event
Unresolved(log) == {n \in Names : NoResult(log, n)}

C5_StartSeedsRoots ==
    /\ [][(\E due \in BOOLEAN : start(due)) /\ status = "waiting"
            => status' = "running"]_vars
    /\ [][status = "waiting" /\ status' = "running" =>
            /\ snapshot' = [present |-> TRUE, graph |-> graph]
            /\ run_log'.kind = "dict"
            /\ DOMAIN run_log'.tasks = Roots(graph)
            /\ Unresolved(run_log') = Roots(graph)
            /\ \A n \in Names :
                  /\ starts'[n] = IF n \in Roots(graph) THEN 1 ELSE 0
                  /\ inflight'[n] = inflight[n] + IF n \in Roots(graph) THEN 1 ELSE 0]_vars

\* a run has just been started on a graph with two roots and a task that is
\* not a root
C5_Witness ==
    /\ status = "running"
    /\ snapshot.present
    /\ Cardinality(Roots(snapshot.graph)) = 2
    /\ DOMAIN snapshot.graph # Roots(snapshot.graph)
    /\ Unresolved(run_log) = Roots(snapshot.graph)
    /\ DOMAIN run_log.tasks = Roots(snapshot.graph)
    /\ \A n \in Names : starts[n] = inflight[n]

Diamond == [n \in {"A", "B", "C", "D"} |->
               IF n = "A" THEN {"B", "C"} ELSE IF n = "D" THEN {} ELSE {"D"}]

DiamondFailedAtC ==
    /\ graph = Diamond
    /\ SaysSuccess(run_log, "A") /\ SaysSuccess(run_log, "B")
    /\ SaysFailure(run_log, "C")

C7_RetryWithoutFailureMutatesNothing ==
    [][(\E done \in SUBSET Names : retry(done)) /\ (\A n \in Names : ~SaysFailure(run_log, n))
          => UNCHANGED <<status, run_log, snapshot>>]_vars

\* C8: whenever the status is waiting or failed there is no snapshot.
C8_SnapshotOnlyWhileRunning ==
    status \in {"waiting", "failed"} => ~snapshot.present

\* C9: with interleaved callbacks the run still ends as under some serial order:
\* one job event per run, and once the status has left running no started task
\* is still to report and no callback is still propagating readiness.
C9_CompletionsSerialize ==
    /\ Cardinality(JobEvents) <= 1
    /\ status # "running" =>
          /\ \A n \in Names : inflight[n] = 0
          /\ \A i \in 1..MaxHandlers : handlers[i].pc # "ready"

\* C10: with interleaved callbacks no task is started twice in a run attempt.
C10_StartedOncePerAttempt ==
    \A n \in Names : starts[n] <= 1 /\ inflight[n] <= 1

\* a call of an operation that the status gates, other than start()
GuardedEdit ==
    \/ \E c \in Commands, n \in Names : add_task(c, n)
    \/ \E a, b \in Names : add_dependency(a, b)
    \/ \E n \in Names : delete_task(n)
    \/ \E a, b \in Names : delete_dependency(a, b)
    \/ \E c \in {"None", "cron"}, b \in 0..(MaxNextRun - 1) : schedule(c, b)
    \/ \E n \in JobNames, available \in BOOLEAN : edit(n, available)
    \/ \E n \in Notes : update_job_notes(n)
    \/ \E a, b \in Names : edit_task(a, b)

\* every such call, and start(), reports an error
AllRefused ==
    /\ \A n \in Names : add_task_error(n) # "" /\ delete_task_error(n) # ""
    /\ \A a, b \in Names :
          /\ add_dependency_error(a, b) # ""
          /\ delete_dependency_error(a, b) # ""
          /\ edit_task_error(a, b) # ""
    /\ schedule_error # ""
    /\ \A n \in JobNames, available \in BOOLEAN : edit_error(n, available) # ""
    /\ update_job_notes_error # ""
    /\ start_error # ""

\* C11: while the status is running, add_task, add_dependency, delete_task,
\* delete_dependency, schedule, start, edit, update_job_notes and edit_task each
\* report an error and change nothing, and nothing else changes the graph, the
\* registry, the schedule, the name or the notes; start() also reports an error
\* and changes nothing while the status is failed.
C11_GuardedCallsRefused ==
    /\ [](status = "running" => AllRefused)
    /\ [][status = "running" /\ (GuardedEdit \/ \E due \in BOOLEAN : start(due))
            => UNCHANGED vars]_vars
    /\ [][status = "running"
            => UNCHANGED <<graph, tasks, cron_schedule, next_run, name, notes>>]_vars
    /\ [](status = "failed" => start_error # "")
    /\ [][status = "failed" /\ (\E due \in BOOLEAN : start(due)) => UNCHANGED vars]_vars

\* a run is going on in a job that has tasks, a dependency, a schedule, a new
\* name and notes, where each of the calls is refused
C11_Witness ==
    /\ status = "running"
    /\ Edges(graph) # {}
    /\ cron_schedule = "cron"
    /\ name = "renamed"
    /\ notes = "note"
    /\ \E n \in DOMAIN tasks : inflight[n] = 1
    /\ AllRefused

\* C12: add_task under a name that is registered, and edit_task to a name that
\* is registered, report an error and leave the registry and the graph as they
\* were.
C12_NameConflictRefused ==
    /\ [](\A n \in DOMAIN tasks :
             /\ allow_change_graph(status) => add_task_error(n) # ""
             /\ \A a \in DOMAIN tasks : edit_task_error(a, n) # "")
    /\ [][\A n \in DOMAIN tasks :
             \/ \E c \in Commands : add_task(c, n)
             \/ \E a \in Names : edit_task(a, n)
             => UNCHANGED <<tasks, graph>>]_vars

\* C13: start() on a graph with a cycle reports the reason of the validation and
\* changes nothing: the status, the snapshot, the run log, the tasks' attempts
\* and the next fire time stay as they were, and no step takes a job with such a
\* graph to running.
C13_CyclicGraphNotStarted ==
    /\ [](~validate(graph) => start_error # "")
    /\ [][~validate(graph) /\ (\E due \in BOOLEAN : start(due)) => UNCHANGED vars]_vars
    /\ [][~validate(graph) /\ status # "running" => status' # "running"]_vars
    /\ [](status = "running" => validate(graph))

\* a job that has never run, has a schedule and has a dependency cycle, where
\* start() is refused for the cycle
C13_Witness ==
    /\ ~validate(graph)
    /\ status = "waiting"
    /\ start_error = "invalid graph"
    /\ cron_schedule = "cron"
    /\ ~snapshot.present
    /\ run_log = NoneLog
    /\ \A n \in Names : inflight[n] = 0

\* C14: edit_task renaming Y to Y2 replaces Y by Y2 in every edge and keeps all
\* other edges and nodes; the registry then holds the same task, named Y2,
\* under Y2, nothing under Y, and every other task as before.
C14_RenameKeepsDependencies ==
    [][\A y, y2 \in Names :
          edit_task_error(y, y2) = "" /\ edit_task(y, y2) =>
             /\ \A x \in Names : <<x, y>> \in Edges(graph) /\ x # y => <<x, y2>> \in Edges(graph')
             /\ \A z \in Names : <<y, z>> \in Edges(graph) /\ z # y => <<y2, z>> \in Edges(graph')
             /\ Edges(graph') = {<<Relabel(e[1], y, y2), Relabel(e[2], y, y2)>> : e \in Edges(graph)}
             /\ DOMAIN graph' = (DOMAIN graph \ {y}) \cup {y2}
             /\ DOMAIN tasks' = (DOMAIN tasks \ {y}) \cup {y2}
             /\ tasks'[y2] = [name |-> y2, command |-> tasks[y].command]
             /\ \A n \in DOMAIN tasks \ {y} : tasks'[n] = tasks[n]]_vars

\* after a failed run a task that ran has been renamed: the run log still has
\* its old name, and the dependency on the task that succeeded before it now
\* leads to the new name
C14_Witness ==
    \E x, y, y2 \in Names :
       /\ status = "failed"
       /\ SaysSuccess(run_log, x) /\ SaysFailure(run_log, y)
       /\ x \in DOMAIN tasks /\ y \notin DOMAIN tasks
       /\ y2 \in DOMAIN tasks /\ ~HasEntry(run_log, y2)
       /\ Edges(graph) = {<<x, y2>>}

\* the step is the report of t with success = ok handled while the calls of f
\* raise, and apart from the record of the errors caught it leaves the Job as
\* the same report does when no call raises
SameAsWithoutFaults(t, ok, f) ==
    \E live \in BOOLEAN :
       LET D == DownstreamList(WriteEntry(Reported(Self, t), t, ok), t, live) IN
       \E order \in Perms(D.nodes) :
          LET J == _complete_task(Enter(Reported(Self, t), {}), t, ok, live, order)
              JF == _complete_task(Enter(Reported(Self, t), f), t, ok, live, order) IN
          /\ complete_task(t, ok, live, order, f)
          /\ JF.exc = J.exc
          /\ <<status', run_log', snapshot', events', inflight', starts'>>
                = <<J.status, J.run_log, J.snapshot, J.events, J.inflight, J.starts>>
          /\ backend' = [J.backend EXCEPT !.caught = backend'.caught]
          /\ backend'.caught \subseteq f

\* C15: an error raised by commit_log or by emit during a completion is caught:
\* the completion goes on as it does without the error (the same entries,
\* events, starts and change of status) and raises nothing more; the lock is
\* never taken while held nor released while free, and is free whenever
\* no completion is being handled.
C15_FaultsCaughtLockReleased ==
    /\ [](~backend.held /\ ~backend.misuse)
    /\ [][\A t \in Names, ok \in BOOLEAN, f \in SUBSET Sections :
             \* (a report of t ends one attempt of t and catches errors of f only)
             /\ inflight[t] > 0 /\ inflight'[t] = inflight[t] - 1
             /\ backend'.caught \subseteq f
             /\ ReportWith(t, ok, f)
             => SameAsWithoutFaults(t, ok, f)]_vars

\* the run has ended failed, job_failed following task_failed, although
\* commit_log and both emit calls of the last completion raised
C15_Witness ==
    /\ backend.caught = {"commit_log", "task_failed", "job_failed"}
    /\ ~backend.held
    /\ status = "failed"
    /\ ~snapshot.present
    /\ Len(events) >= 2
    /\ events[Len(events) - 1].event = "task_failed"
    /\ LastEvent(events, "job_failed")

TaskFailedEvent(t) == [event |-> "task_failed", task |-> t]
JobEvent(event) == [event |-> event, task |-> ""]

\* C16: every completion commits the run log, and emits task_failed for the
\* task exactly when its payload has success = false; the only other event of a
\* completion is the job event of a run that it ends, which comes after the
\* task_failed event.
C16_TaskFailedOnFailureOnly ==
    [][\A t \in Names, ok \in BOOLEAN :
          inflight[t] > 0 /\ inflight'[t] = inflight[t] - 1 /\ ReportOf(t, ok) =>
             /\ backend'.committed
             /\ events' = events
                   \o (IF ok THEN <<>> ELSE <<TaskFailedEvent(t)>>)
                   \o (IF status = "running" /\ status' = "failed"
                         THEN <<JobEvent("job_failed")>>
                       ELSE IF status = "running" /\ status' = "waiting"
                         THEN <<JobEvent("job_complete")>>
                       ELSE <<>>)]_vars

\* a run in which one task succeeded and the last one to report failed: the
\* log was committed, and the events are task_failed for that task and then
\* job_failed
C16_Witness ==
    \E a, b \in Names :
       /\ SaysSuccess(run_log, a) /\ SaysFailure(run_log, b)
       /\ backend.committed
       /\ events = <<TaskFailedEvent(b), JobEvent("job_failed")>>
       /\ status = "failed"

C18_RunEventuallyEnds == [](status = "running" => <>(status # "running"))

\* C19: retry() called while the status is running or waiting starts no task
\* and changes neither the status, nor the run log, nor the snapshot.
C19_RetryOnlyWhenFailed ==
    [][(\E done \in SUBSET Names : retry(done)) /\ status \in {"running", "waiting"}
          => UNCHANGED <<status, run_log, snapshot, inflight, starts>>]_vars

\* C20: whenever the run log has task entries, each of them is under the name
\* of a task of the registry that is a node of the graph.
C20_RunLogNamesRegistered ==
    run_log.kind = "dict" =>
       DOMAIN run_log.tasks \subseteq (DOMAIN tasks \cap DOMAIN graph)

====
